---- MODULE Spec2Model ----
(***************************************************************************)
(* Forest-fire dataset pipeline (construir_dataset_ml.py) and the sensor   *)
(* inference wrapper (predecir_con_sensores.py).                           *)
(*                                                                         *)
(* Dates are day numbers.  A raw coordinate is an integer count of 1e-4    *)
(* degrees.  A grid coordinate is a float64 value written <<k, u>>: the    *)
(* double that lies u units in the last place above the double nearest to  *)
(* k * 0.005 degrees.  Two grid coordinates are equal as Python floats iff *)
(* the pairs are equal.  A precipitation value is a float64 value written  *)
(* as the integer t * Tenth + u: the double u units in the last place      *)
(* above the double nearest to t tenths of a millimetre.                   *)
(***************************************************************************)
EXTENDS Integers, Sequences, FiniteSets

VARIABLES
    pc,                 \* position of the script
    firms_csv,          \* FIRMS_Cali.csv as read, acq_date coerced (lines 35-36)
    fires,              \* detections after load, dropna and sort by acq_date
    eventos_positivos,  \* one row per (date_only, grid_lat, grid_lon) group
    n_negatives,        \* number of draws of the sampling loop
    draw_i,             \* iterations of the sampling loop already run
    negative_samples,   \* accepted draws, in draw order
    rejected,           \* history: draws that met a positive event
    dataset,            \* combined event table, sorted by date_only
    service_rain,       \* the weather service's daily precipitation
    unique_locations,   \* distinct (grid_lat, grid_lon) of dataset
    loc_i,              \* iterations of the fetch loop already run
    weather_cache,      \* (grid_lat, grid_lon) -> weather table
    http_log,           \* history: requests sent and pauses taken
    joined,             \* dataset with the nine weather columns (line 218)
    dataset_final,      \* joined after dropna (line 221)
    output_csv,         \* dataset_incendios_ml.csv: header and rows
    w_series,           \* get_precip_accumulated: weather_df
    w_target,           \* get_precip_accumulated: target_date
    w_days,             \* get_precip_accumulated: days
    w_result,           \* get_precip_accumulated: value returned
    w_features,         \* the three accumulators of one event (lines 198-200)
    g_centre,           \* discretization: index of a grid centre
    g_raw,              \* discretization: two raw coordinates of one axis
    g_cells,            \* discretization: their grid coordinates
    g_again,            \* discretization: the grid coordinates discretized
    all_features,       \* entrenar_modelo.py: ALL_FEATURES of the training run
    metadata,           \* modelo_metadata.pkl
    probabilidad,       \* predict_proba(df)[0, 1], in units of 1e-4
    df_columns,         \* columns of the frame passed to the classifier
    resultado           \* dict returned by predecir_incendio

sampleVars == <<firms_csv, fires, eventos_positivos, n_negatives, draw_i,
                negative_samples, rejected>>
weatherVars == <<service_rain, unique_locations, loc_i, weather_cache,
                 http_log, joined, dataset_final, output_csv>>

precipVars == <<w_series, w_target, w_days, w_result, w_features>>
gridVars == <<g_centre, g_raw, g_cells, g_again>>
inferVars == <<all_features, metadata, probabilidad, df_columns, resultado>>

vars == <<pc, sampleVars, dataset, weatherVars, precipVars, gridVars, inferVars>>

----------------------------------------------------------------------------
(* Configuration                                                           *)

\* GRID_SIZE = 0.005 degrees, in raw units of 1e-4 degrees
GRID_SIZE == 50
\* NEGATIVE_RATIO = 5
NEGATIVE_RATIO == 5
\* LAT_MIN = 3.30 = 660 * 0.005, LON_MIN = -76.65 = -15330 * 0.005
LAT_MIN_K == 660
LON_MIN_K == 0 - 15330

\* Bounds of the model
MaxDay == 1       \* date_range is day 0 .. MaxDay
NLats == 2        \* rows of the grid that are modelled, from LAT_MIN up
MaxFires == 2     \* detections in the input file
MaxDraws == 5     \* cap on n_negatives

\* a missing value (NaT after the coercion of acq_date, an empty field of the
\* file, null in a payload, np.nan in a table)
NaN == 0 - 999999

\* DataFrame.dropna(subset=...)
DropNa(rows, subset) == SelectSeq(rows, LAMBDA r : \A c \in subset : r[c] # NaN)

----------------------------------------------------------------------------
(* Float arithmetic of the grid                                            *)

\* k * GRID_SIZE in float64, as units in the last place above the double
\* nearest to the decimal k * 0.005, for the rows 659 .. 711 and the columns
\* -15331 .. -15289 of the grid: 660 * 0.005 is 3.3000000000000003 and
\* -15320 * 0.005 is -76.60000000000001.
MulErr(k) ==
    IF k \in {660, 664, 677, 681, 685, 689, 702, 706, 710} THEN 1
    ELSE IF 0 - k \in {15320, 15317, 15314, 15295, 15292, 15289} THEN 0 - 1
    ELSE 0

\* Raw values (the doubles nearest to m * 1e-4 degrees), between the rows 659
\* and 711 and the columns -15331 and -15289, that are a multiple or a
\* half-way multiple of GRID_SIZE and whose float quotient value / GRID_SIZE
\* is not the exact quotient: it falls just above it (-76.6475 / 0.005 is
\* -15329.499999999998, -76.645 / 0.005 is -15328.999999999998) or just
\* below it (3.4475 / 0.005 is 689.4999999999999, 3.51 / 0.005 is
\* 701.9999999999999).
QuotAbove ==
    {0 - 766475, 0 - 766325, 0 - 765975, 0 - 765825, 0 - 765675, 0 - 765525,
     0 - 765375, 0 - 765225, 0 - 765075, 0 - 764725, 0 - 764575, 0 - 764425}
    \cup {GRID_SIZE * (0 - k) :
             k \in {15329, 15326, 15323, 15320, 15317, 15314, 15307, 15304,
                    15301, 15298, 15295, 15292, 15289}}
QuotBelow ==
    {34475, 0 - 766175, 0 - 766025, 0 - 764925, 0 - 764775}
    \cup {GRID_SIZE * 702, GRID_SIZE * (0 - 15311), GRID_SIZE * (0 - 15308)}

\* Products k * GRID_SIZE that are not the four-decimal double and whose
\* float quotient by GRID_SIZE is not k: (-15320 * 0.005) / 0.005 is
\* -15320.000000000002. For the rows of MulErr the quotient is exact:
\* (660 * 0.005) / 0.005 is 660.0.
ProductQuotBelow == {0 - k : k \in {15320, 15317, 15314, 15295, 15292, 15289}}

\* value / GRID_SIZE for a raw value m: <<m, s>> stands for the double that
\* is the exact quotient m / GRID_SIZE (s = 0), the one just above it
\* (s = 1) or the one just below it (s = -1)
Quot(m) ==
    <<m, IF m \in QuotAbove THEN 1 ELSE IF m \in QuotBelow THEN 0 - 1 ELSE 0>>

\* value / GRID_SIZE for a grid coordinate <<k, u>>: the four-decimal double
\* (u = 0) is a raw value, the product k * GRID_SIZE (u # 0) has its own
\* quotient
QuotCell(c) ==
    IF c[2] = 0 THEN Quot(c[1] * GRID_SIZE)
    ELSE <<c[1] * GRID_SIZE, IF c[1] \in ProductQuotBelow THEN 0 - 1 ELSE 0>>

\* the quotient cut down to the integer below it
RoundQuotFloor(q) ==
    IF q[1] % GRID_SIZE = 0 /\ q[2] < 0 THEN q[1] \div GRID_SIZE - 1
    ELSE q[1] \div GRID_SIZE

\* (...).round() of a quotient: nearest integer, exact halves to even
RoundQuot(q) ==
    LET lo == q[1] \div GRID_SIZE
        r  == q[1] % GRID_SIZE
    IN  IF 2 * r < GRID_SIZE THEN lo
        ELSE IF 2 * r > GRID_SIZE THEN lo + 1
        ELSE IF q[2] > 0 THEN lo + 1
        ELSE IF q[2] < 0 THEN lo
        ELSE IF lo % 2 = 0 THEN lo ELSE lo + 1

\* ... * GRID_SIZE of a rounded quotient k
TimesGridSize(k) == <<k, MulErr(k)>>

\* (value / GRID_SIZE).round() * GRID_SIZE on a raw value
Discretize(m) == TimesGridSize(RoundQuot(Quot(m)))

\* the same expression on a grid coordinate
DiscretizeCell(c) == TimesGridSize(RoundQuot(QuotCell(c)))

\* grid_cells: round(lat, 4), round(lon, 4) over np.arange: the doubles
\* nearest to the four-decimal values
Lats == {<<LAT_MIN_K + i, 0>> : i \in 0 .. NLats - 1}
\* of the columns of the grid the model keeps the westmost one
Lons == {<<LON_MIN_K, 0>>}
grid_cells == Lats \X Lons

date_range == 0 .. MaxDay

\* float comparison of two grid coordinates
CoordLess(a, b) == a[1] < b[1] \/ (a[1] = b[1] /\ a[2] < b[2])

----------------------------------------------------------------------------
(* Positive events: lines 35-61                                            *)

\* raw coordinates of the detections that are modelled: in latitude the
\* centre of each modelled cell and a point 0.002 degrees above it, in
\* longitude a point 0.002 degrees above the centre
RawOffsets == {0, 20}
RawLats == {k[1] * GRID_SIZE + o : k \in Lats, o \in RawOffsets}
RawLons == {k[1] * GRID_SIZE + 20 : k \in Lons}

\* the detections of the sampling stage all carry the same brightness, frp
\* and confidence
DetectionRecord ==
    [acq_date : date_range, latitude : RawLats, longitude : RawLons,
     brightness : {300}, frp : {5}, confidence : {50}]

\* fires.sort_values('acq_date'); of the orders the sort may leave among
\* detections of one date the model keeps the one ascending in latitude and
\* longitude, and it keeps no two identical detections
SortedByAcqDate(s) ==
    \A i \in 1 .. Len(s) - 1 :
        \/ s[i].acq_date < s[i + 1].acq_date
        \/ /\ s[i].acq_date = s[i + 1].acq_date
           /\ \/ s[i].latitude < s[i + 1].latitude
              \/ /\ s[i].latitude = s[i + 1].latitude
                 /\ s[i].longitude < s[i + 1].longitude

\* the group key of a detection: date_only, grid_lat, grid_lon (lines 49-51)
GroupKey(f) == <<f.acq_date, Discretize(f.latitude), Discretize(f.longitude)>>

\* order of the group keys, as groupby sorts them
KeyLess(a, b) ==
    \/ a[1] < b[1]
    \/ a[1] = b[1] /\ CoordLess(a[2], b[2])
    \/ a[1] = b[1] /\ a[2] = b[2] /\ CoordLess(a[3], b[3])

RECURSIVE SortKeys(_)
SortKeys(S) ==
    IF S = {} THEN <<>>
    ELSE LET m == CHOOSE x \in S : \A y \in S \ {x} : KeyLess(x, y)
         IN  <<m>> \o SortKeys(S \ {m})

\* the detections of one group, in the order of the table
Group(fs, key) == SelectSeq(fs, LAMBDA f : GroupKey(f) = key)

Column(rows, c) == [i \in 1 .. Len(rows) |-> rows[i][c]]

NotNa(values) == SelectSeq(values, LAMBDA v : v # NaN)

RECURSIVE Sum(_)
Sum(values) == IF values = <<>> THEN 0 ELSE Head(values) + Sum(Tail(values))

RECURSIVE GCD(_, _)
GCD(a, b) == IF b = 0 THEN a ELSE GCD(b, a % b)

\* the quotient n / d of two non-negative integers, d > 0, as the float
\* nearest to it, written <<numerator, denominator>> in lowest terms
Quotient(n, d) == <<n \div GCD(n, d), d \div GCD(n, d)>>

\* the missing value of a column of quotients
NaNMean == <<0, 0>>

\* agg 'mean': the mean of the values that are present, NaN when none is
Mean(values) ==
    IF NotNa(values) = <<>> THEN NaNMean
    ELSE Quotient(Sum(NotNa(values)), Len(NotNa(values)))

\* agg 'first': the first value that is present, NaN when none is
First(values) == IF NotNa(values) = <<>> THEN NaN ELSE Head(NotNa(values))

PositiveRow(fs, key) ==
    [date_only |-> key[1], grid_lat |-> key[2], grid_lon |-> key[3],
     brightness |-> Mean(Column(Group(fs, key), "brightness")),
     frp        |-> Mean(Column(Group(fs, key), "frp")),
     confidence |-> First(Column(Group(fs, key), "confidence")),
     incendio   |-> 1]

\* the grouping that keeps one row per detection instead of one per key
GroupByNoMerge(fs) == [i \in 1 .. Len(fs) |-> PositiveRow(<<fs[i]>>, GroupKey(fs[i]))]

\* fires.groupby(['date_only','grid_lat','grid_lon']).agg(...).reset_index()
\* and the label column (lines 54-60)
GroupBy(fs) ==
    LET keys   == {GroupKey(fs[i]) : i \in 1 .. Len(fs)}
        sorted == SortKeys(keys)
    IN  [i \in 1 .. Len(sorted) |-> PositiveRow(fs, sorted[i])]

\* n_negatives = len(eventos_positivos) * NEGATIVE_RATIO
NNegatives(pos) == Len(pos) * NEGATIVE_RATIO

\* lines 49-61 and 77-79
Aggregate ==
    /\ pc = "aggregate"
    /\ eventos_positivos' = GroupBy(fires)
    /\ n_negatives' = NNegatives(GroupBy(fires))
    /\ negative_samples' = <<>>
    /\ draw_i' = 0
    /\ pc' = "sample"
    /\ UNCHANGED <<firms_csv, fires, rejected, dataset, weatherVars, precipVars, gridVars,
                   inferVars>>

----------------------------------------------------------------------------
(* Negative sampling: lines 81-97                                          *)

\* ((date_only == date) & (grid_lat == lat) & (grid_lon == lon)).any()
IsPositive(pos, date, lat, lon) ==
    \E i \in 1 .. Len(pos) :
        /\ pos[i].date_only = date
        /\ pos[i].grid_lat = lat
        /\ pos[i].grid_lon = lon

NegativeRow(date, lat, lon) ==
    [date_only |-> date, grid_lat |-> lat, grid_lon |-> lon, incendio |-> 0]

\* the loop that draws until the target is met: a discarded draw does not
\* count as an iteration
DrawUntilTarget ==
    /\ pc = "sample"
    /\ draw_i < n_negatives
    /\ \E date \in date_range, cell \in grid_cells :
         IF ~IsPositive(eventos_positivos, date, cell[1], cell[2])
         THEN /\ negative_samples' =
                    Append(negative_samples, NegativeRow(date, cell[1], cell[2]))
              /\ rejected' = rejected
              /\ draw_i' = draw_i + 1
         ELSE /\ negative_samples' = negative_samples
              /\ rejected' = rejected + 1
              /\ draw_i' = draw_i
    /\ UNCHANGED <<pc, firms_csv, fires, eventos_positivos, n_negatives, dataset,
                   weatherVars, precipVars, gridVars, inferVars>>

\* one iteration of the loop, for one draw of the random generator
Draw ==
    /\ pc = "sample"
    /\ draw_i < n_negatives
    /\ \E date \in date_range, cell \in grid_cells :
         IF ~IsPositive(eventos_positivos, date, cell[1], cell[2])
         THEN /\ negative_samples' =
                    Append(negative_samples, NegativeRow(date, cell[1], cell[2]))
              /\ rejected' = rejected
         ELSE /\ negative_samples' = negative_samples
              /\ rejected' = rejected + 1
    /\ draw_i' = draw_i + 1
    /\ UNCHANGED <<pc, firms_csv, fires, eventos_positivos, n_negatives, dataset,
                   weatherVars, precipVars, gridVars, inferVars>>

----------------------------------------------------------------------------
(* Combined event table: lines 103-108                                     *)

\* sort_values('date_only'): rows of equal date keep their order (the
\* default sort is an insertion sort on tables below 17 rows)
RECURSIVE SortFrom(_, _)
SortFrom(rows, d) ==
    IF d > MaxDay THEN <<>>
    ELSE SelectSeq(rows, LAMBDA r : r.date_only = d) \o SortFrom(rows, d + 1)

SortByDate(rows) == SortFrom(rows, 0)

\* eventos_positivos[['date_only', 'grid_lat', 'grid_lon', 'incendio']]
EventColumns(pos) ==
    [i \in 1 .. Len(pos) |->
        [date_only |-> pos[i].date_only, grid_lat |-> pos[i].grid_lat,
         grid_lon |-> pos[i].grid_lon, incendio |-> pos[i].incendio]]

\* pd.concat([eventos_positivos[...], eventos_negativos]).sort_values(...)
Combined(pos, neg) == SortByDate(EventColumns(pos) \o neg)

Combine ==
    /\ pc = "sample"
    /\ draw_i = n_negatives
    /\ dataset' = Combined(eventos_positivos, negative_samples)
    /\ pc' = "combined"
    /\ UNCHANGED <<sampleVars, weatherVars, precipVars, gridVars, inferVars>>

\* the weather stage before it starts
WeatherIdle ==
    /\ service_rain = 0
    /\ unique_locations = <<>>
    /\ loc_i = 0
    /\ weather_cache = <<>>
    /\ http_log = <<>>
    /\ joined = <<>>
    /\ dataset_final = <<>>
    /\ output_csv = [columns |-> <<>>, rows |-> <<>>]

\* get_precip_accumulated not called
PrecipIdle ==
    /\ w_series = <<>>
    /\ w_target = 0
    /\ w_days = 0
    /\ w_result = 0
    /\ w_features = <<>>

\* no coordinate discretized on its own
GridIdle ==
    /\ g_centre = 0
    /\ g_raw = <<>>
    /\ g_cells = <<>>
    /\ g_again = <<>>

\* no model trained or loaded
InferIdle ==
    /\ all_features = <<>>
    /\ metadata = [features |-> <<>>, sensor_features |-> <<>>]
    /\ probabilidad = 0
    /\ df_columns = <<>>
    /\ resultado = [riesgo |-> FALSE, probabilidad |-> 0, nivel |-> ""]

----------------------------------------------------------------------------
(* The sampling stage                                                      *)

InitSample ==
    /\ pc = "aggregate"
    /\ fires \in {s \in UNION {[1 .. n -> DetectionRecord] : n \in 0 .. MaxFires} :
                    /\ SortedByAcqDate(s)
                    /\ Cardinality({GroupKey(s[i]) : i \in 1 .. Len(s)})
                           * NEGATIVE_RATIO <= MaxDraws}
    /\ firms_csv = fires
    /\ eventos_positivos = <<>>
    /\ n_negatives = 0
    /\ draw_i = 0
    /\ negative_samples = <<>>
    /\ rejected = 0
    /\ dataset = <<>>
    /\ WeatherIdle
    /\ PrecipIdle
    /\ InferIdle
    /\ GridIdle

NextSample == Aggregate \/ Draw \/ Combine

SpecSample == InitSample /\ [][NextSample]_vars

Key(r) == <<r.date_only, r.grid_lat, r.grid_lon>>

Negatives(rows) == SelectSeq(rows, LAMBDA r : r.incendio = 0)
Positives(rows) == SelectSeq(rows, LAMBDA r : r.incendio = 1)

\* the grid cell of a row: the multiples of GRID_SIZE that its two grid
\* columns stand for, whichever double holds them
GridCell(r) == <<r.grid_lat[1], r.grid_lon[1]>>

\* the pair (date, grid cell) of a row
DateCell(r) == <<r.date_only, GridCell(r)>>

\* C1: no negative event has the key of a positive event, in the list of
\* accepted draws and in the combined table, so no pair (date, grid cell) of
\* the combined table carries both labels.
C1_NoLabelCollision ==
    /\ \A i \in 1 .. Len(negative_samples), j \in 1 .. Len(eventos_positivos) :
         /\ Key(negative_samples[i]) # Key(eventos_positivos[j])
         /\ DateCell(negative_samples[i]) # DateCell(eventos_positivos[j])
    /\ \A i, j \in 1 .. Len(dataset) :
         dataset[i].incendio # dataset[j].incendio =>
             /\ Key(dataset[i]) # Key(dataset[j])
             /\ DateCell(dataset[i]) # DateCell(dataset[j])

\* C2 as stated: no key occurs in more than one row of the combined table.
C2_OneRowPerKey ==
    \A i, j \in 1 .. Len(dataset) : i # j => Key(dataset[i]) # Key(dataset[j])

\* C2 as amended: no key occurs in more than one positive row, of
\* eventos_positivos and of the combined table; two rows of the combined
\* table that share a key are both negative events.
C2_OnePositiveRowPerKey ==
    /\ \A i, j \in 1 .. Len(eventos_positivos) :
         i # j => Key(eventos_positivos[i]) # Key(eventos_positivos[j])
    /\ \A i, j \in 1 .. Len(dataset) :
         i # j /\ Key(dataset[i]) = Key(dataset[j])
            => dataset[i].incendio = 0 /\ dataset[j].incendio = 0

\* two detections of one (day, cell) merged into one positive event, and a
\* (day, cell) drawn twice and kept twice
C2_Witness ==
    /\ pc = "combined"
    /\ Len(fires) = 2
    /\ Len(Positives(dataset)) = 1
    /\ \E i, j \in 1 .. Len(dataset) : i # j /\ Key(dataset[i]) = Key(dataset[j])

\* C3: the loop runs exactly len(eventos_positivos) * NEGATIVE_RATIO draws;
\* every draw either adds one negative event or is discarded, so the number
\* of negative events is the target minus the discarded draws, never more
\* than the target.
C3_FixedDraws ==
    /\ pc \in {"sample", "combined"} =>
         n_negatives = Len(eventos_positivos) * NEGATIVE_RATIO
    /\ draw_i <= n_negatives
    /\ Len(negative_samples) = draw_i - rejected
    /\ pc = "combined" =>
         /\ draw_i = n_negatives
         /\ Len(Negatives(dataset)) = n_negatives - rejected
         /\ Len(Negatives(dataset)) <= n_negatives

\* a finished run that discarded some draws and kept others
C3_Witness ==
    /\ pc = "combined"
    /\ rejected > 0
    /\ Len(negative_samples) > 0
    /\ Len(negative_samples) < n_negatives

----------------------------------------------------------------------------
(* Loading the detections: lines 35-38, then the aggregation               *)

MaxRecords == 2       \* rows of FIRMS_Cali.csv

\* fields of a row of the file: two dates and an unparsable one; 3.3050 and
\* 3.3070 in one cell, 3.3100 in the next and an empty latitude; one
\* longitude and an empty one; brightness, frp and confidence, the first
\* and the last of them possibly empty
CsvRow ==
    [acq_date   : {NaN, 0, 1},
     latitude   : {NaN, 33050, 33070, 33100},
     longitude  : {NaN, 0 - 766480},
     brightness : {NaN, 10, 30},
     frp        : {1, 3},
     confidence : {NaN, 50, 80}]

\* the orders in which sort_values('acq_date') may leave the rows: ascending
\* in acq_date, rows of one date in any order (the default quicksort of a
\* datetime column promises no order among equal dates)
SortOrders(rows) ==
    {p \in [1 .. Len(rows) -> 1 .. Len(rows)] :
        /\ \A i, j \in 1 .. Len(rows) : i # j => p[i] # p[j]
        /\ \A i \in 1 .. Len(rows) - 1 : rows[p[i]].acq_date <= rows[p[i + 1]].acq_date}

\* lines 35-38: read, coerce acq_date, dropna, sort
Load ==
    /\ pc = "load"
    /\ LET kept == DropNa(firms_csv, {"acq_date", "latitude", "longitude"})
       IN  \E p \in SortOrders(kept) :
             fires' = [i \in 1 .. Len(kept) |-> kept[p[i]]]
    /\ pc' = "aggregate"
    /\ UNCHANGED <<firms_csv, eventos_positivos, n_negatives, draw_i,
                   negative_samples, rejected, dataset, weatherVars, precipVars, gridVars,
                   inferVars>>

InitLoad ==
    /\ pc = "load"
    /\ firms_csv \in UNION {[1 .. n -> CsvRow] : n \in 0 .. MaxRecords}
    /\ fires = <<>>
    /\ eventos_positivos = <<>>
    /\ n_negatives = 0
    /\ draw_i = 0
    /\ negative_samples = <<>>
    /\ rejected = 0
    /\ dataset = <<>>
    /\ WeatherIdle
    /\ PrecipIdle
    /\ InferIdle
    /\ GridIdle

NextLoad == Load \/ Aggregate

SpecLoad == InitLoad /\ [][NextLoad]_vars

\* v is the arithmetic mean of the values: v = <<n, d>> with n / d their
\* sum over their number
IsMeanOf(v, values) ==
    IF values = <<>> THEN v = NaNMean
    ELSE v[2] > 0 /\ v[1] * Len(values) = v[2] * Sum(values)

\* C12: every (date, grid cell) key of the detections that have a date and
\* coordinates has exactly one positive event; the event's label is 1, its
\* brightness and frp are the arithmetic means over the records of the
\* group (over those that carry a value), and its confidence is the
\* confidence of the first record of the group in the date-sorted table,
\* a missing one included.
C12_Aggregation ==
    pc = "sample" =>
        /\ \A i \in 1 .. Len(fires) :
             Cardinality({j \in 1 .. Len(eventos_positivos) :
                            Key(eventos_positivos[j]) = GroupKey(fires[i])}) = 1
        /\ \A j \in 1 .. Len(eventos_positivos) :
             LET e == eventos_positivos[j]
                 g == Group(fires, Key(e))
             IN  /\ g # <<>>
                 /\ e.incendio = 1
                 /\ IsMeanOf(e.brightness, NotNa(Column(g, "brightness")))
                 /\ IsMeanOf(e.frp, NotNa(Column(g, "frp")))
                 /\ e.confidence = g[1].confidence

----------------------------------------------------------------------------
(* The discretization on its own: lines 49-50                              *)

\* rows and columns of the grid of the study, as np.arange makes them: 50
\* rows, 3.30 to 3.545 degrees, and 41 columns, -76.65 to -76.45 degrees
\* (the float quotient (LON_MAX - LON_MIN) / GRID_SIZE is 40.00000000000057
\* and arange takes its ceiling)
Centres == (660 .. 709) \cup {0 - k : k \in 15290 .. 15330}

\* half of GRID_SIZE
HalfCell == GRID_SIZE \div 2

InitGrid ==
    /\ pc = "grid_call"
    /\ g_centre \in Centres
    /\ \E oa, ob \in (0 - HalfCell) .. HalfCell :
         g_raw = <<g_centre * GRID_SIZE + oa, g_centre * GRID_SIZE + ob>>
    /\ g_cells = <<>>
    /\ g_again = <<>>
    /\ firms_csv = <<>>
    /\ fires = <<>>
    /\ eventos_positivos = <<>>
    /\ n_negatives = 0
    /\ draw_i = 0
    /\ negative_samples = <<>>
    /\ rejected = 0
    /\ dataset = <<>>
    /\ WeatherIdle
    /\ PrecipIdle
    /\ InferIdle

\* lines 49-50 on the two coordinates, once more on the two results, and on
\* the coordinate that grid_cells holds for the centre (round(lat, 4))
DiscretizeBoth ==
    /\ pc = "grid_call"
    /\ g_cells' = <<Discretize(g_raw[1]), Discretize(g_raw[2])>>
    /\ g_again' = <<DiscretizeCell(Discretize(g_raw[1])),
                    DiscretizeCell(Discretize(g_raw[2])),
                    DiscretizeCell(<<g_centre, 0>>)>>
    /\ pc' = "grid_done"
    /\ UNCHANGED <<sampleVars, dataset, weatherVars, precipVars, g_centre, g_raw,
                   inferVars>>

NextGrid == DiscretizeBoth

SpecGrid == InitGrid /\ [][NextGrid]_vars

\* distance of a raw coordinate from the grid centre k, in 1e-4 degrees
Distance(m, k) == IF m >= k * GRID_SIZE THEN m - k * GRID_SIZE ELSE k * GRID_SIZE - m

\* discretizing a grid coordinate gives it back: the two results of the
\* discretization come back as the same doubles, and the coordinate that
\* grid_cells holds for the centre comes back in the centre's cell
Idempotent ==
    /\ g_again[1] = g_cells[1]
    /\ g_again[2] = g_cells[2]
    /\ g_again[3][1] = g_centre

\* C13 as stated: discretizing a grid coordinate gives it back, and two raw
\* coordinates at most half a cell size from one grid centre, those exactly
\* half a cell away included, get the same grid coordinate.
C13_HalfCellInclusive ==
    pc = "grid_done" =>
        /\ Idempotent
        /\ (Distance(g_raw[1], g_centre) <= HalfCell
               /\ Distance(g_raw[2], g_centre) <= HalfCell) => g_cells[1] = g_cells[2]

\* C13: discretizing a grid coordinate gives it back, and two raw
\* coordinates less than half a cell size from one grid centre get the same
\* grid coordinate, the one of that centre.
C13_WithinHalfCell ==
    pc = "grid_done" =>
        /\ Idempotent
        /\ (Distance(g_raw[1], g_centre) < HalfCell
               /\ Distance(g_raw[2], g_centre) < HalfCell) =>
                  /\ g_cells[1] = g_cells[2]
                  /\ g_cells[1][1] = g_centre

\* two coordinates on either side of a centre whose product with GRID_SIZE
\* is not the four-decimal value and does not divide back to the centre's
\* index exactly, both put in its cell, and the three grid coordinates
\* discretized once more
C13_Witness ==
    /\ pc = "grid_done"
    /\ g_raw[1] < g_centre * GRID_SIZE
    /\ g_raw[2] > g_centre * GRID_SIZE
    /\ Distance(g_raw[1], g_centre) = HalfCell - 1
    /\ Distance(g_raw[2], g_centre) = HalfCell - 1
    /\ g_cells[1] = g_cells[2]
    /\ g_cells[1][2] # 0
    /\ QuotCell(g_cells[1])[2] # 0
    /\ Idempotent

----------------------------------------------------------------------------
(* Weather service and get_weather_data: lines 119-141                     *)

MaxRain == 1          \* the service's precipitation is 0 .. MaxRain mm a day
MaxPositives == 2     \* positive events of the table the weather stage reads
MaxNegRows == 2       \* negative events of the table the weather stage reads

\* the six daily variables of the request (lines 127-128)
Columns == {"temperature_2m_max", "temperature_2m_min", "temperature_2m_mean",
            "relative_humidity_2m_mean", "precipitation_sum", "wind_speed_10m_max"}

\* A float of the precipitation columns is written as the integer
\* t * Tenth + u: the double u units in the last place above the double
\* nearest to t tenths of a millimetre. 0.3 is 3 * Tenth, 2.1 is 21 * Tenth
\* and 2.0999999999999996 is 21 * Tenth - 1; the integers are ordered as the
\* floats are.
Tenth == 1000

\* x millimetres
Mm(x) == x * 10 * Tenth

\* what the archive holds for one variable on one day
ServiceValue(col, d, rain) ==
    CASE col = "temperature_2m_max" -> 30
      [] col = "temperature_2m_min" -> 18
      [] col = "temperature_2m_mean" -> 24
      [] col = "relative_humidity_2m_mean" -> 70
      [] col = "wind_speed_10m_max" -> 10
      [] col = "precipitation_sum" -> Mm(rain)

\* Outcomes of requests.get(...) for one request:
\*   raises       the call raises (timeout, connection error)
\*   status_code  the HTTP status
\*   daily        "absent": the JSON has no 'daily'; "malformed": 'daily' does
\*                not make a table with a parsable 'time'; "table": it does
\*   missing      a variable the table lacks, or "none"
\*   null         a variable that is null on every day, or "none"
\*   short        days missing at the end of the series
Base == [raises |-> FALSE, status_code |-> 200, daily |-> "table",
         missing |-> "none", null |-> "none", short |-> 0]

Responses ==
    {[Base EXCEPT !.raises = TRUE], [Base EXCEPT !.status_code = 500],
     [Base EXCEPT !.daily = "absent"], [Base EXCEPT !.daily = "malformed"],
     [Base EXCEPT !.short = 1]}
    \cup {[Base EXCEPT !.missing = c] : c \in {"temperature_2m_max", "precipitation_sum"}}
    \cup {[Base EXCEPT !.null = c] : c \in Columns \cup {"none"}}

\* pd.DataFrame(data['daily']) with df['date'] added (lines 136-137)
DailyTable(resp, start_date, end_date, rain) ==
    [i \in 1 .. (end_date - resp.short - start_date + 1) |->
        [c \in ({"date"} \cup Columns) \ {resp.missing} |->
            IF c = "date" THEN start_date + i - 1
            ELSE IF c = resp.null THEN NaN
            ELSE ServiceValue(c, start_date + i - 1, rain)]]

\* get_weather_data: found = FALSE stands for the return value None
get_weather_data(resp, start_date, end_date, rain) ==
    IF resp.raises THEN [found |-> FALSE, df |-> <<>>]
    ELSE IF resp.status_code # 200 THEN [found |-> FALSE, df |-> <<>>]
    ELSE IF resp.daily = "absent" THEN [found |-> FALSE, df |-> <<>>]
    ELSE IF resp.daily = "malformed" THEN [found |-> FALSE, df |-> <<>>]
    ELSE [found |-> TRUE, df |-> DailyTable(resp, start_date, end_date, rain)]

----------------------------------------------------------------------------
(* Fetch loop: lines 144-160                                               *)

Cell(r) == <<r.grid_lat, r.grid_lon>>

RECURSIVE DropDuplicates(_, _)
DropDuplicates(rows, seen) ==
    IF rows = <<>> THEN <<>>
    ELSE IF Cell(Head(rows)) \in seen THEN DropDuplicates(Tail(rows), seen)
    ELSE <<Cell(Head(rows))>>
            \o DropDuplicates(Tail(rows), seen \cup {Cell(Head(rows))})

\* dataset[['grid_lat', 'grid_lon']].drop_duplicates()
UniqueLocations(rows) == DropDuplicates(rows, {})

\* dataset[(dataset['grid_lat']==lat) & (dataset['grid_lon']==lon)]
LocEvents(rows, loc) == SelectSeq(rows, LAMBDA r : Cell(r) = loc)

MinDate(rows) == CHOOSE d \in {rows[i].date_only : i \in 1 .. Len(rows)} :
                    \A j \in 1 .. Len(rows) : d <= rows[j].date_only
MaxDate(rows) == CHOOSE d \in {rows[i].date_only : i \in 1 .. Len(rows)} :
                    \A j \in 1 .. Len(rows) : d >= rows[j].date_only

\* weather_cache[(lat, lon)] = weather_df
CachePut(cache, loc, df) ==
    [c \in DOMAIN cache \cup {loc} |-> IF c = loc THEN df ELSE cache[c]]

\* one iteration of the loop: the request, the cache entry, the pause
FetchOne ==
    /\ pc = "fetch"
    /\ loc_i < Len(unique_locations)
    /\ LET loc        == unique_locations[loc_i + 1]
           loc_events == LocEvents(dataset, loc)
           min_date   == MinDate(loc_events)
           max_date   == MaxDate(loc_events)
       IN  \E resp \in Responses :
             LET weather_df == get_weather_data(resp, min_date, max_date, service_rain)
             IN  /\ weather_cache' =
                        IF weather_df.found
                        THEN CachePut(weather_cache, loc, weather_df.df)
                        ELSE weather_cache
                 /\ http_log' = http_log \o
                        << [op |-> "get", loc |-> loc, start_date |-> min_date,
                            end_date |-> max_date, response |-> resp],
                           [op |-> "sleep"] >>
    /\ loc_i' = loc_i + 1
    /\ UNCHANGED <<pc, sampleVars, dataset, service_rain, unique_locations,
                   joined, dataset_final, output_csv, precipVars, gridVars, inferVars>>

----------------------------------------------------------------------------
(* Join and completeness filter: lines 170-223                             *)

\* The float additions x + y, of the values and partial sums that the
\* model's series give rise to, whose result is not the double nearest to
\* the decimal sum carried over from x and y: <<t1, u1, t2, u2, d>> says that
\* (t1 * Tenth + u1) + (t2 * Tenth + u2) is d units in the last place above
\* (t1 + t2) * Tenth + u1 + u2. 0.3 + 0.6 is 0.8999999999999999 and
\* 0.8999999999999999 + 0.3 is 1.2. Sums of whole millimetres are exact.
AddRounding ==
    {<<3, 0, 6, 0, 0 - 1>>, <<3, 0, 9, 0 - 1, 1>>, <<3, 0, 24, 0 - 1, 0 - 1>>,
     <<3, 0, 24, 0, 0 - 1>>, <<3, 0, 33, 0 - 2, 0 - 1>>, <<3, 0, 33, 0 - 1, 0 - 1>>,
     <<3, 0, 39, 0 - 3, 1>>, <<3, 0, 39, 0 - 2, 1>>, <<3, 0, 51, 0, 0 - 1>>,
     <<3, 0, 66, 0 - 1, 0 - 1>>, <<3, 0, 78, 0 - 1, 1>>, <<3, 0, 84, 0, 1>>,
     <<6, 0, 9, 0 - 1, 1>>, <<9, 0 - 1, 9, 0 - 1, 1>>, <<15, 0, 18, 0 - 1, 1>>,
     <<18, 0 - 1, 18, 0 - 1, 1>>, <<21, 0 - 1, 24, 0, 1>>, <<36, 0 - 1, 36, 0 - 1, 1>>}

\* x + y in float64
FloatAdd(x, y) ==
    LET lo == IF x <= y THEN x ELSE y
        hi == IF x <= y THEN y ELSE x
        hit == {e \in AddRounding :
                  lo = e[1] * Tenth + e[2] /\ hi = e[3] * Tenth + e[4]}
    IN  IF hit = {} THEN x + y ELSE x + y + (CHOOSE e \in hit : TRUE)[5]

\* res += a[i] for the values in turn
RECURSIVE SumFrom(_, _)
SumFrom(res, values) ==
    IF values = <<>> THEN res
    ELSE SumFrom(FloatAdd(res, Head(values)), Tail(values))

\* r[j] += a[i + j] for the blocks of eight values that start at index 9,
\* 17, ... and end at n8 or before
RECURSIVE Lane(_, _, _, _)
Lane(a, r, i, n8) ==
    IF i > n8 THEN r ELSE Lane(a, FloatAdd(r, a[i]), i + 8, n8)

\* numpy's pairwise summation of a window of at most 128 values, which every
\* window of 30 days is: under eight values a plain loop from 0, otherwise
\* eight running sums over the full blocks of eight, added two by two, and
\* the values left over added one at a time
PairwiseSum(a) ==
    LET n == Len(a)
    IN  IF n < 8 THEN SumFrom(0, a)
        ELSE LET n8  == n - (n % 8)
                 r   == [j \in 1 .. 8 |-> Lane(a, a[j], j + 8, n8)]
                 res == FloatAdd(FloatAdd(FloatAdd(r[1], r[2]), FloatAdd(r[3], r[4])),
                                 FloatAdd(FloatAdd(r[5], r[6]), FloatAdd(r[7], r[8])))
             IN  SumFrom(res, SubSeq(a, n8 + 1, n))

\* the missing values of a column replaced by 0
FillNa(values) == [i \in 1 .. Len(values) |-> IF values[i] = NaN THEN 0 ELSE values[i]]

\* Series.sum(): missing values count as 0, the values are added in float64
\* by np.add.reduce from the identity 0, the empty sum is 0
SumSkipNa(values) == FloatAdd(0, PairwiseSum(FillNa(values)))

PrecipOf(rows) == [i \in 1 .. Len(rows) |-> rows[i]["precipitation_sum"]]

\* the accumulator whose window takes in the target day
get_precip_through_target(weather_df, target_date, days) ==
    LET start == target_date - days
    IN  SumSkipNa(PrecipOf(SelectSeq(weather_df,
            LAMBDA r : r["date"] >= start /\ r["date"] <= target_date)))

\* get_precip_accumulated (lines 170-175)
get_precip_accumulated(weather_df, target_date, days) ==
    LET start == target_date - days
    IN  SumSkipNa(PrecipOf(SelectSeq(weather_df,
            LAMBDA r : r["date"] >= start /\ r["date"] < target_date)))

\* weather_df[weather_df['date'] == date]
DayWeather(weather_df, date) == SelectSeq(weather_df, LAMBDA r : r["date"] = date)

AllNaN ==
    [temperatura_max |-> NaN, temperatura_min |-> NaN, temperatura_media |-> NaN,
     humedad_relativa |-> NaN, viento_max |-> NaN, precipitacion_dia |-> NaN,
     precipitacion_7d |-> NaN, precipitacion_14d |-> NaN, precipitacion_30d |-> NaN]

\* the dict built at lines 191-201
DayFeatures(weather_df, date) ==
    LET day == DayWeather(weather_df, date)[1]
    IN  [temperatura_max   |-> day["temperature_2m_max"],
         temperatura_min   |-> day["temperature_2m_min"],
         temperatura_media |-> day["temperature_2m_mean"],
         humedad_relativa  |-> day["relative_humidity_2m_mean"],
         viento_max        |-> day["wind_speed_10m_max"],
         precipitacion_dia |-> day["precipitation_sum"],
         precipitacion_7d  |-> get_precip_accumulated(weather_df, date, 7),
         precipitacion_14d |-> get_precip_accumulated(weather_df, date, 14),
         precipitacion_30d |-> get_precip_accumulated(weather_df, date, 30)]

\* the weather features of one event (lines 183-213)
Features(row, cache) ==
    IF Cell(row) \in DOMAIN cache
    THEN IF DayWeather(cache[Cell(row)], row.date_only) # <<>>
         THEN DayFeatures(cache[Cell(row)], row.date_only)
         ELSE AllNaN
    ELSE AllNaN

\* a column read at lines 192-200 is not in the cached table: KeyError
RaisesKeyError(row, cache) ==
    /\ Cell(row) \in DOMAIN cache
    /\ DayWeather(cache[Cell(row)], row.date_only) # <<>>
    /\ ~(Columns \subseteq DOMAIN DayWeather(cache[Cell(row)], row.date_only)[1])

\* pd.concat([dataset, weather_df_final], axis=1), one row
JoinedRow(row, f) ==
    [date_only |-> row.date_only, grid_lat |-> row.grid_lat,
     grid_lon |-> row.grid_lon, incendio |-> row.incendio,
     temperatura_max |-> f.temperatura_max, temperatura_min |-> f.temperatura_min,
     temperatura_media |-> f.temperatura_media,
     humedad_relativa |-> f.humedad_relativa, viento_max |-> f.viento_max,
     precipitacion_dia |-> f.precipitacion_dia,
     precipitacion_7d |-> f.precipitacion_7d,
     precipitacion_14d |-> f.precipitacion_14d,
     precipitacion_30d |-> f.precipitacion_30d]

WeatherColumns == DOMAIN AllNaN

\* the filter that asks for all nine weather columns
AllWeatherColumns == WeatherColumns

\* the subset of dropna (lines 221-223)
CriticalColumns == {"temperatura_media", "humedad_relativa", "precipitacion_7d"}

\* the columns of pd.concat([dataset, pd.DataFrame(weather_features)],
\* axis=1): the frame made of an empty list of dicts has no column
ConcatColumns(events) ==
    {"date_only", "grid_lat", "grid_lon", "incendio"}
        \cup (IF events = <<>> THEN {} ELSE WeatherColumns)

\* dropna raises KeyError for a label of the subset that is not a column
DropNaRaises(events, subset) == ~(subset \subseteq ConcatColumns(events))

\* lines 178-223; a KeyError ends the script before anything is written
Join ==
    /\ pc = "fetch"
    /\ loc_i = Len(unique_locations)
    /\ IF \E i \in 1 .. Len(dataset) : RaisesKeyError(dataset[i], weather_cache)
       THEN /\ pc' = "aborted"
            /\ UNCHANGED <<joined, dataset_final>>
       ELSE LET j == [i \in 1 .. Len(dataset) |->
                        JoinedRow(dataset[i], Features(dataset[i], weather_cache))]
            IN  /\ joined' = j
                /\ IF DropNaRaises(dataset, CriticalColumns)
                   THEN /\ pc' = "aborted"
                        /\ UNCHANGED dataset_final
                   ELSE /\ dataset_final' = DropNa(j, CriticalColumns)
                        /\ pc' = "done"
    /\ UNCHANGED <<sampleVars, dataset, service_rain, unique_locations, loc_i,
                   weather_cache, http_log, output_csv, precipVars, gridVars, inferVars>>

----------------------------------------------------------------------------
(* Temporal features and the file written: lines 231-253                   *)

\* START_DATE = "2012-01-01" is day 0
START_YEAR == 2012

IsLeap(y) == (y % 4 = 0 /\ y % 100 # 0) \/ y % 400 = 0

DaysInYear(y) == IF IsLeap(y) THEN 366 ELSE 365

DaysInMonth(y, m) ==
    IF m = 2 THEN (IF IsLeap(y) THEN 29 ELSE 28)
    ELSE IF m \in {4, 6, 9, 11} THEN 30
    ELSE 31

\* the calendar date of day d counted from 1 January of year y, as
\* <<year, day of the year>>
RECURSIVE YearAndDay(_, _)
YearAndDay(d, y) ==
    IF d < 0 THEN YearAndDay(d + DaysInYear(y - 1), y - 1)
    ELSE IF d >= DaysInYear(y) THEN YearAndDay(d - DaysInYear(y), y + 1)
    ELSE <<y, d + 1>>

\* the month of the n-th day of year y, looked for from month m on
RECURSIVE MonthFrom(_, _, _)
MonthFrom(n, y, m) ==
    IF n <= DaysInMonth(y, m) THEN m ELSE MonthFrom(n - DaysInMonth(y, m), y, m + 1)

\* fecha.dt.year, fecha.dt.month, fecha.dt.dayofyear
Year(d) == YearAndDay(d, START_YEAR)[1]
DayOfYear(d) == YearAndDay(d, START_YEAR)[2]
Month(d) == MonthFrom(DayOfYear(d), Year(d), 1)

\* mes.isin([12, 1, 2, 6, 7, 8]).astype(int)
EstacionSeca(mes) == IF mes \in {12, 1, 2, 6, 7, 8} THEN 1 ELSE 0

TemporalColumns == {"fecha", "año", "mes", "dia_año", "estacion_seca"}

\* one row after lines 231-235: the five columns are added after the others
WithTemporal(r) ==
    [c \in DOMAIN r \cup TemporalColumns |->
        IF c = "fecha" THEN r.date_only
        ELSE IF c = "año" THEN Year(r.date_only)
        ELSE IF c = "mes" THEN Month(r.date_only)
        ELSE IF c = "dia_año" THEN DayOfYear(r.date_only)
        ELSE IF c = "estacion_seca" THEN EstacionSeca(Month(r.date_only))
        ELSE r[c]]

\* the columns in the order the frame holds them before line 251
cols_as_built ==
    <<"date_only", "grid_lat", "grid_lon", "incendio",
      "temperatura_max", "temperatura_min", "temperatura_media",
      "humedad_relativa", "viento_max",
      "precipitacion_dia", "precipitacion_7d", "precipitacion_14d", "precipitacion_30d",
      "fecha", "año", "mes", "dia_año", "estacion_seca">>

\* cols_order (lines 243-250)
cols_order ==
    <<"fecha", "año", "mes", "dia_año", "estacion_seca",
      "grid_lat", "grid_lon",
      "temperatura_max", "temperatura_min", "temperatura_media",
      "humedad_relativa", "viento_max",
      "precipitacion_dia", "precipitacion_7d", "precipitacion_14d", "precipitacion_30d",
      "incendio">>

\* dataset_final[cols]: the named columns, in the order of the list
SelectColumns(rows, cols) ==
    [columns |-> cols,
     rows    |-> [i \in 1 .. Len(rows) |->
                    [c \in {cols[k] : k \in 1 .. Len(cols)} |-> rows[i][c]]]]

\* lines 231-253: temporal features, column order, to_csv
Save ==
    /\ pc = "done"
    /\ output_csv' = SelectColumns([i \in 1 .. Len(dataset_final) |->
                                      WithTemporal(dataset_final[i])], cols_order)
    /\ pc' = "saved"
    /\ UNCHANGED <<sampleVars, dataset, service_rain, unique_locations, loc_i,
                   weather_cache, http_log, joined, dataset_final, precipVars, gridVars,
                   inferVars>>

----------------------------------------------------------------------------
(* The weather stage, from any small event table the sampling stage makes  *)

PositiveKeys == {GroupKey(f) : f \in DetectionRecord}

\* a detection of the group of a key: the one 0.002 degrees east of the
\* centre of the cell
DetectionAt(key) ==
    [acq_date |-> key[1], latitude |-> key[2][1] * GRID_SIZE,
     longitude |-> key[3][1] * GRID_SIZE + 20,
     brightness |-> 300, frp |-> 5, confidence |-> 50]

InitWeather ==
    /\ pc = "fetch"
    /\ \E S \in SUBSET PositiveKeys :
         /\ Cardinality(S) \in 0 .. MaxPositives
         /\ fires = [i \in 1 .. Cardinality(S) |-> DetectionAt(SortKeys(S)[i])]
    /\ firms_csv = fires
    /\ eventos_positivos = GroupBy(fires)
    /\ n_negatives = NNegatives(eventos_positivos)
    /\ negative_samples \in
         {s \in UNION {[1 .. n -> {NegativeRow(d, c[1], c[2]) :
                                     d \in date_range, c \in grid_cells}] :
                         n \in 0 .. MaxNegRows} :
            /\ Len(s) <= n_negatives
            /\ \A i \in 1 .. Len(s) :
                 ~IsPositive(eventos_positivos, s[i].date_only, s[i].grid_lat,
                             s[i].grid_lon)}
    /\ draw_i = n_negatives
    /\ rejected = n_negatives - Len(negative_samples)
    /\ dataset = Combined(eventos_positivos, negative_samples)
    /\ service_rain \in 0 .. MaxRain
    /\ unique_locations = UniqueLocations(dataset)
    /\ loc_i = 0
    /\ weather_cache = <<>>
    /\ http_log = <<>>
    /\ joined = <<>>
    /\ dataset_final = <<>>
    /\ output_csv = [columns |-> <<>>, rows |-> <<>>]
    /\ PrecipIdle
    /\ InferIdle
    /\ GridIdle

NextWeather == FetchOne \/ Join \/ Save

SpecWeather == InitWeather /\ [][NextWeather]_vars

Gets == SelectSeq(http_log, LAMBDA e : e.op = "get")

\* the service's precipitation total over the days lo .. hi
RECURSIVE ServiceTotal(_, _, _)
ServiceTotal(lo, hi, rain) ==
    IF lo > hi THEN 0
    ELSE ServiceValue("precipitation_sum", lo, rain) + ServiceTotal(lo + 1, hi, rain)

\* C5: the series requested for a cell covers every day read for the cell's
\* events, from 30 days before each event to the event's day, so the
\* accumulators of a final row are the service's totals over the 7, 14 and
\* 30 days before the event.
C5_SeriesCoversWindows ==
    /\ \A i \in 1 .. Len(Gets), j \in 1 .. Len(dataset) :
         Cell(dataset[j]) = Gets[i].loc =>
            /\ Gets[i].start_date <= dataset[j].date_only - 30
            /\ dataset[j].date_only <= Gets[i].end_date
    /\ \A i \in 1 .. Len(dataset_final) :
         LET r == dataset_final[i]
         IN  r.precipitacion_dia # NaN =>
               /\ r.precipitacion_7d =
                    ServiceTotal(r.date_only - 7, r.date_only - 1, service_rain)
               /\ r.precipitacion_14d =
                    ServiceTotal(r.date_only - 14, r.date_only - 1, service_rain)
               /\ r.precipitacion_30d =
                    ServiceTotal(r.date_only - 30, r.date_only - 1, service_rain)

\* a request that failed: it raised, the status is not 200, or the 'daily'
\* payload is missing or malformed
Failed(resp) ==
    \/ resp.raises
    \/ resp.status_code # 200
    \/ resp.daily # "table"
    \/ resp.missing # "none"

\* C6: a failed request never aborts the run, leaves the cell without a
\* cache entry, and no event of the cell is in the final dataset.
C6_FailureNeverAborts ==
    /\ (\E i \in 1 .. Len(Gets) : Failed(Gets[i].response)) => pc # "aborted"
    /\ \A i \in 1 .. Len(Gets) :
         Failed(Gets[i].response) =>
            /\ Gets[i].loc \notin DOMAIN weather_cache
            /\ \A j \in 1 .. Len(dataset_final) : Cell(dataset_final[j]) # Gets[i].loc

Complete(r) ==
    /\ r.temperatura_media # NaN
    /\ r.humedad_relativa # NaN
    /\ r.precipitacion_7d # NaN

\* C7: the final dataset is the joined table restricted to the rows whose
\* temperatura_media, humedad_relativa and precipitacion_7d are all defined:
\* such a row is kept whatever its other six weather fields, any other row
\* is dropped.
C7_CompletenessFilter ==
    pc = "done" =>
        /\ dataset_final = SelectSeq(joined, Complete)
        /\ \A i \in 1 .. Len(dataset_final) : dataset_final[i].temperatura_media # NaN
        /\ \A i \in 1 .. Len(joined) :
             Complete(joined[i]) => \E j \in 1 .. Len(dataset_final) :
                                       dataset_final[j] = joined[i]

\* a run that dropped a row for its undefined mean temperature and kept a
\* row whose maximum temperature is undefined
C7_Witness ==
    /\ pc = "done"
    /\ \E i \in 1 .. Len(joined) :
         /\ joined[i].temperatura_media = NaN
         /\ joined[i].temperatura_max # NaN
         /\ \A j \in 1 .. Len(dataset_final) : dataset_final[j] # joined[i]
    /\ \E j \in 1 .. Len(dataset_final) : dataset_final[j].temperatura_max = NaN

\* the grid cell that a request is sent for
GridCellOfRequest(g) == <<g.loc[1][1], g.loc[2][1]>>

\* the grid cells of the rows of a table
GridCellsOf(rows) == {GridCell(rows[i]) : i \in 1 .. Len(rows)}

\* C8: the fetch loop sends one request per distinct grid cell of the
\* combined table, never two for one grid cell, one after another, each
\* followed by the pause before the next one is sent.
C8_OneRequestPerCell ==
    /\ Len(http_log) = 2 * loc_i
    /\ \A i \in 1 .. loc_i :
         /\ http_log[2 * i - 1].op = "get"
         /\ http_log[2 * i].op = "sleep"
    /\ \A i, j \in 1 .. Len(Gets) :
         i # j => GridCellOfRequest(Gets[i]) # GridCellOfRequest(Gets[j])
    /\ {GridCellOfRequest(Gets[i]) : i \in 1 .. Len(Gets)} \subseteq GridCellsOf(dataset)
    /\ pc \in {"done", "aborted"} =>
         /\ {GridCellOfRequest(Gets[i]) : i \in 1 .. Len(Gets)} = GridCellsOf(dataset)
         /\ Len(Gets) = Cardinality(GridCellsOf(dataset))

\* the columns that the fixed output order names: date, year, month,
\* day of the year, dry-season flag, grid latitude, grid longitude, maximum,
\* minimum and mean temperature, mean humidity, maximum wind, precipitation
\* of the day and of the 7, 14 and 30 days before, label
ListedOrder ==
    <<"fecha", "año", "mes", "dia_año", "estacion_seca", "grid_lat", "grid_lon",
      "temperatura_max", "temperatura_min", "temperatura_media",
      "humedad_relativa", "viento_max", "precipitacion_dia", "precipitacion_7d",
      "precipitacion_14d", "precipitacion_30d", "incendio">>

ColumnSet(cols) == {cols[k] : k \in 1 .. Len(cols)}

\* C11 as stated: the file written has exactly 16 columns, the columns of
\* the fixed output order in that order, and every row carries exactly 16
\* values.
C11_SixteenColumns ==
    pc = "saved" =>
        /\ Len(output_csv.columns) = 16
        /\ output_csv.columns = ListedOrder
        /\ \A i \in 1 .. Len(output_csv.rows) :
             Cardinality(DOMAIN output_csv.rows[i]) = 16

\* C11: the file written has exactly 17 columns, the seventeen that the
\* fixed output order names and in that order; every row of the final
\* dataset is written, with exactly these 17 values.
C11_SeventeenColumns ==
    pc = "saved" =>
        /\ Len(output_csv.columns) = 17
        /\ output_csv.columns = ListedOrder
        /\ Len(output_csv.rows) = Len(dataset_final)
        /\ \A i \in 1 .. Len(output_csv.rows) :
             /\ DOMAIN output_csv.rows[i] = ColumnSet(ListedOrder)
             /\ Cardinality(DOMAIN output_csv.rows[i]) = 17

\* a file written with a positive and a negative event
C11_Witness ==
    /\ pc = "saved"
    /\ \E i, j \in 1 .. Len(output_csv.rows) :
         /\ output_csv.rows[i]["incendio"] = 1
         /\ output_csv.rows[j]["incendio"] = 0

----------------------------------------------------------------------------
(* get_precip_accumulated on its own: lines 170-175                        *)

MaxLookback == 31     \* a series starts at most this many days before day 0

\* the windows the join asks for (lines 198-200)
Windows == {7, 14, 30}

\* a series of consecutive days lo .. hi with precipitation a on every day
\* but day s, which has b
SeriesOf(lo, hi, a, s, b) ==
    [i \in 1 .. (hi - lo + 1) |->
        [date |-> lo + i - 1,
         precipitation_sum |-> IF lo + i - 1 = s THEN b ELSE a]]

InitPrecip ==
    /\ pc = "precip_call"
    /\ w_target \in date_range
    /\ w_days \in Windows
    /\ \E lo \in (0 - MaxLookback) .. MaxDay, hi \in w_target - 1 .. w_target + 1,
          a \in {0, Mm(1)}, b \in {Mm(100), NaN, 0 - Mm(5)} :
         \E s \in lo .. hi :
            /\ lo <= hi
            /\ w_series = SeriesOf(lo, hi, a, s, b)
    /\ w_result = 0
    /\ w_features = <<>>
    /\ firms_csv = <<>>
    /\ fires = <<>>
    /\ eventos_positivos = <<>>
    /\ n_negatives = 0
    /\ draw_i = 0
    /\ negative_samples = <<>>
    /\ rejected = 0
    /\ dataset = <<>>
    /\ WeatherIdle
    /\ InferIdle
    /\ GridIdle

CallPrecip ==
    /\ pc = "precip_call"
    /\ w_result' = get_precip_accumulated(w_series, w_target, w_days)
    /\ pc' = "precip_done"
    /\ UNCHANGED <<sampleVars, dataset, weatherVars, w_series, w_target, w_days,
                   w_features, gridVars, inferVars>>

NextPrecip == CallPrecip

SpecPrecip == InitPrecip /\ [][NextPrecip]_vars

\* the precipitation a series holds for day d: 0 when it has no entry for
\* the day or the entry is missing
OnDay(series, d) ==
    IF \E i \in 1 .. Len(series) : series[i].date = d /\ series[i].precipitation_sum # NaN
    THEN LET i == CHOOSE i \in 1 .. Len(series) : series[i].date = d
         IN  series[i].precipitation_sum
    ELSE 0

RECURSIVE DaysTotal(_, _, _)
DaysTotal(series, lo, hi) ==
    IF lo > hi THEN 0 ELSE OnDay(series, lo) + DaysTotal(series, lo + 1, hi)

\* C4: get_precip_accumulated returns the precipitation of the days D-N to
\* D-1 and nothing of day D; 1 mm on each of the 7 days before D and 100 mm
\* on D give 7 for N = 7.
C4_WindowBeforeTarget ==
    pc = "precip_done" =>
        /\ w_result = DaysTotal(w_series, w_target - w_days, w_target - 1)
        /\ (w_days = 7
               /\ w_series = SeriesOf(w_target - 7, w_target, Mm(1), w_target, Mm(100)))
              => w_result = Mm(7)

\* the call on the series of the example
C4_Witness ==
    /\ pc = "precip_done"
    /\ w_days = 7
    /\ w_series = SeriesOf(w_target - 7, w_target, Mm(1), w_target, Mm(100))
    /\ w_result = Mm(7)

----------------------------------------------------------------------------
(* The three accumulators of one event: lines 198-200                      *)

\* the three accumulators of the dict of lines 191-213, for an event of day
\* w_target in a cell whose cached series is w_series
PrecipFeatures(weather_df, date) ==
    IF DayWeather(weather_df, date) # <<>>
    THEN [precipitacion_7d  |-> get_precip_accumulated(weather_df, date, 7),
          precipitacion_14d |-> get_precip_accumulated(weather_df, date, 14),
          precipitacion_30d |-> get_precip_accumulated(weather_df, date, 30)]
    ELSE [precipitacion_7d |-> NaN, precipitacion_14d |-> NaN,
          precipitacion_30d |-> NaN]

\* an event of day w_target and the series cached for its cell: some days
\* up to the day of the event or the day after, with precipitation a on
\* every day but day s, which has b; the values are 0 and 0.3 mm
InitWindows ==
    /\ pc = "precip_call"
    /\ w_target \in date_range
    /\ w_days = 0
    /\ \E lo \in (0 - MaxLookback) .. MaxDay, hi \in w_target - 1 .. w_target + 1,
          a \in {0, 3 * Tenth}, b \in {0, 3 * Tenth, NaN} :
         \E s \in lo .. hi :
            /\ lo <= hi
            /\ w_series = SeriesOf(lo, hi, a, s, b)
    /\ w_result = 0
    /\ w_features = <<>>
    /\ firms_csv = <<>>
    /\ fires = <<>>
    /\ eventos_positivos = <<>>
    /\ n_negatives = 0
    /\ draw_i = 0
    /\ negative_samples = <<>>
    /\ rejected = 0
    /\ dataset = <<>>
    /\ WeatherIdle
    /\ InferIdle
    /\ GridIdle

CallWindows ==
    /\ pc = "precip_call"
    /\ w_features' = PrecipFeatures(w_series, w_target)
    /\ pc' = "precip_row"
    /\ UNCHANGED <<sampleVars, dataset, weatherVars, w_series, w_target, w_days,
                   w_result, gridVars, inferVars>>

NextWindows == CallWindows

SpecWindows == InitWindows /\ [][NextWindows]_vars

\* every precipitation value of the series is a number and not negative
NonNegative(series) ==
    \A i \in 1 .. Len(series) :
        series[i].precipitation_sum # NaN /\ series[i].precipitation_sum >= 0

\* C14: for an event that reaches the final dataset (its 7-day accumulator
\* is defined), when no daily precipitation of the cell's series is
\* negative, 0 <= precipitacion_7d <= precipitacion_14d <= precipitacion_30d.
C14_NestedAccumulators ==
    (pc = "precip_row" /\ w_features.precipitacion_7d # NaN /\ NonNegative(w_series)) =>
        /\ 0 <= w_features.precipitacion_7d
        /\ w_features.precipitacion_7d <= w_features.precipitacion_14d
        /\ w_features.precipitacion_14d <= w_features.precipitacion_30d

----------------------------------------------------------------------------
(* Training metadata (entrenar_modelo.py) and predecir_incendio            *)

\* a probability of 1.0 in units of 1e-4
One == 10 * 10 * 10 * 10

SENSOR_FEATURES == <<"temperatura_media", "humedad_relativa", "viento_max",
                     "precipitacion_7d", "precipitacion_14d", "precipitacion_30d">>
TEMPORAL_FEATURES == <<"mes", "dia_año", "estacion_seca">>

\* ALL_FEATURES = SENSOR_FEATURES + TEMPORAL_FEATURES (entrenar_modelo.py:53)
ALL_FEATURES == SENSOR_FEATURES \o TEMPORAL_FEATURES

\* feature lists a training run may have recorded: the one of the script,
\* the same names in another order, and a shorter list
FeatureLists == {ALL_FEATURES, TEMPORAL_FEATURES \o SENSOR_FEATURES, SENSOR_FEATURES}

\* the metadata dict saved at entrenar_modelo.py:147-156
SaveMetadata ==
    /\ pc = "train"
    /\ metadata' = [features |-> all_features, sensor_features |-> SENSOR_FEATURES]
    /\ pc' = "loaded"
    /\ UNCHANGED <<sampleVars, dataset, weatherVars, precipVars, gridVars, all_features,
                   probabilidad, df_columns, resultado>>

\* keys of the dict datos, in insertion order (lines 106-116)
DatosColumns == <<"temperatura_media", "humedad_relativa", "viento_max",
                  "precipitacion_7d", "precipitacion_14d", "precipitacion_30d",
                  "mes", "dia_año", "estacion_seca">>

\* the thresholds taken with >= instead of >
NivelInclusive(p) ==
    IF 10 * p >= 7 * One THEN "ALTO"
    ELSE IF 10 * p >= 5 * One THEN "MODERADO"
    ELSE IF 10 * p >= 3 * One THEN "BAJO"
    ELSE "MUY BAJO"

\* lines 122-130: thresholds 0.7, 0.5, 0.3
Nivel(p) ==
    IF 10 * p > 7 * One THEN "ALTO"
    ELSE IF 10 * p > 5 * One THEN "MODERADO"
    ELSE IF 10 * p > 3 * One THEN "BAJO"
    ELSE "MUY BAJO"

\* probabilities, in units of 1e-4, whose float product with 1000 falls
\* just below the half: 0.5015 * 1000 is 501.49999999999994
ProductBelowHalf == {5015, 5035, 5055, 5075, 5095, 5115}

\* round(probabilidad, 3) of a numpy float, in units of 1e-4: the product
\* with 1000 is rounded to the nearest integer, exact halves to the even
\* one, and divided by 1000
Round3(p) ==
    LET q == p \div 10
        r == p % 10
    IN  IF r < 5 THEN 10 * q
        ELSE IF r > 5 THEN 10 * (q + 1)
        ELSE IF p \in ProductBelowHalf THEN 10 * q
        ELSE IF q % 2 = 0 THEN 10 * q ELSE 10 * (q + 1)

\* predecir_incendio (lines 84-137) for one answer of the classifier; the
\* function keeps no state between calls, so one call is modelled
predecir_incendio ==
    /\ pc = "loaded"
    /\ \E p \in 0 .. One, prediccion \in {0, 1} :
         /\ probabilidad' = p
         /\ resultado' = [riesgo |-> prediccion = 1,
                          probabilidad |-> Round3(p),
                          nivel |-> Nivel(p)]
    /\ df_columns' = DatosColumns
    /\ pc' = "predicted"
    /\ UNCHANGED <<sampleVars, dataset, weatherVars, precipVars, gridVars, all_features,
                   metadata>>

InitInfer ==
    /\ pc = "train"
    /\ all_features \in FeatureLists
    /\ metadata = [features |-> <<>>, sensor_features |-> <<>>]
    /\ probabilidad = 0
    /\ df_columns = <<>>
    /\ resultado = [riesgo |-> FALSE, probabilidad |-> 0, nivel |-> ""]
    /\ firms_csv = <<>>
    /\ fires = <<>>
    /\ eventos_positivos = <<>>
    /\ n_negatives = 0
    /\ draw_i = 0
    /\ negative_samples = <<>>
    /\ rejected = 0
    /\ dataset = <<>>
    /\ WeatherIdle
    /\ PrecipIdle
    /\ GridIdle

NextInfer == SaveMetadata \/ predecir_incendio

SpecInfer == InitInfer /\ [][NextInfer]_vars

\* C9: every probability gets the level of its range: ALTO above 0.7,
\* MODERADO above 0.5 up to 0.7, BAJO above 0.3 up to 0.5, MUY BAJO up to
\* 0.3; so 0.7 is MODERADO, 0.5 is BAJO and 0.3 is MUY BAJO.
C9_RiskLevels ==
    pc = "predicted" =>
        LET p == probabilidad
            n == resultado.nivel
        IN  /\ n \in {"ALTO", "MODERADO", "BAJO", "MUY BAJO"}
            /\ n = "ALTO" <=> 10 * p > 7 * One
            /\ n = "MODERADO" <=> (10 * p > 5 * One /\ 10 * p <= 7 * One)
            /\ n = "BAJO" <=> (10 * p > 3 * One /\ 10 * p <= 5 * One)
            /\ n = "MUY BAJO" <=> 10 * p <= 3 * One

\* the classifier answered exactly 0.7 and the level is MODERADO
C9_Witness ==
    /\ pc = "predicted"
    /\ 10 * probabilidad = 7 * One
    /\ resultado.nivel = "MODERADO"

\* C10: the columns predecir_incendio passes to the classifier are the
\* feature list recorded in metadata['features'], names and order.
C10_ColumnsFromMetadata ==
    pc = "predicted" => df_columns = metadata.features

\* C15: the dict returned is consistent with itself: the probability it
\* reports is the classifier's rounded to 3 decimals, and the level it
\* reports is the one the thresholds 0.7, 0.5 and 0.3 give to the reported
\* probability.
C15_LevelOfReportedProbability ==
    pc = "predicted" =>
        /\ resultado.probabilidad = Round3(probabilidad)
        /\ resultado.nivel = Nivel(resultado.probabilidad)

====
